---- MODULE Spec2Model ----
(***************************************************************************)
(* Firestarter host client (firestarter/main.py): the serial response      *)
(* parser and wait loop, the port handshake, the chunked read and write    *)
(* transfers and the session operations.                                   *)
(*                                                                         *)
(* Text is modelled as sequences of byte values (code points), so that     *)
(* filtering, substring search and trimming are computed character by      *)
(* character as the Python code computes them.                             *)
(***************************************************************************)
EXTENDS Integers, Sequences, FiniteSets, TLC

(* ------------------------------ bounds --------------------------------- *)
MaxParts == 2      \* tagged parts per received line
MaxTime == 8       \* clock cap of the wait loop specification
MaxBlocks == 2     \* largest chip and file size, in whole blocks
Partial == 44      \* length of a short final block

(* ------------------------- program constants --------------------------- *)
WINDOW == 5        \* "timeout + 5 < time.time()"
READ_TIMEOUT == 1  \* serial.Serial(..., timeout=1.0)
block_size == 256  \* write_chip: block_size; read_chip: ser.read(256)

TagOK == <<79, 75, 58>>                 \* "OK:"
TagWARN == <<87, 65, 82, 78, 58>>       \* "WARN:"
TagERROR == <<69, 82, 82, 79, 82, 58>>  \* "ERROR:"
TagDATA == <<68, 65, 84, 65, 58>>       \* "DATA:"
TagINFO == <<73, 78, 70, 79, 58>>       \* "INFO:"
MsgTimeout == <<84, 105, 109, 101, 111, 117, 116>>  \* "Timeout"

TagOf(kind) ==
    CASE kind = "OK" -> TagOK
      [] kind = "WARN" -> TagWARN
      [] kind = "ERROR" -> TagERROR
      [] kind = "DATA" -> TagDATA
      [] kind = "INFO" -> TagINFO

(* ----------------------------- str helpers ----------------------------- *)
Whitespace == {9, 10, 11, 12, 13, 28, 29, 30, 31, 32}

\* s[i..] starts with t (1-based i)
StartsAt(s, t, i) ==
    /\ i >= 1
    /\ i + Len(t) - 1 <= Len(s)
    /\ \A k \in 1..Len(t) : s[i + k - 1] = t[k]

\* Python "t in s"
Contains(s, t) == \E i \in 1..(Len(s) + 1) : StartsAt(s, t, i)

Max(S) == CHOOSE x \in S : \A y \in S : y <= x
Min(S) == CHOOSE x \in S : \A y \in S : x <= y

\* s.rfind(t): last occurrence, 1-based, 0 when absent
rfind(s, t) ==
    IF Contains(s, t) THEN Max({i \in 1..(Len(s) + 1) : StartsAt(s, t, i)}) ELSE 0

\* s[i:] with a 1-based start
From(s, i) == SubSeq(s, i, Len(s))

\* s.strip()
strip(s) ==
    LET keep == {i \in 1..Len(s) : s[i] \notin Whitespace}
    IN IF keep = {} THEN <<>> ELSE SubSeq(s, Min(keep), Max(keep))

(* --------------------------- response parser --------------------------- *)
read_filterd_bytes_NoLowerBound(byte_array) ==
    SelectSeq(byte_array, LAMBDA b : b <= 126)

\* read_filterd_bytes: keep the bytes 32..126; None is the empty sequence
read_filterd_bytes(byte_array) ==
    SelectSeq(byte_array, LAMBDA b : 32 <= b /\ b <= 126)

\* msg = res[res.rfind(tag):]; return msg[len(tag):].strip()
TagMessage(res, tag) == strip(From(From(res, rfind(res, tag)), Len(tag) + 1))

\* The if/elif chain of wait_for_response on a non-empty filtered line.
ParseLine(res) ==
    IF Contains(res, TagOK) THEN <<"OK", TagMessage(res, TagOK)>>
    ELSE IF Contains(res, TagWARN) THEN <<"WARN", TagMessage(res, TagWARN)>>
    ELSE IF Contains(res, TagERROR) THEN <<"ERROR", TagMessage(res, TagERROR)>>
    ELSE IF Contains(res, TagDATA) THEN <<"DATA", TagMessage(res, TagDATA)>>
    ELSE IF Contains(res, TagINFO) THEN <<"INFO", From(res, rfind(res, TagINFO))>>
    ELSE <<"NONE", <<>>>>

Returns_InfoReturns(ev) == ev[1] \in {"OK", "WARN", "ERROR", "DATA", "INFO"}

\* The branches of the chain that end in a return statement.
Returns(ev) == ev[1] \in {"OK", "WARN", "ERROR", "DATA"}

\* The value returned when the window has elapsed.
TimeoutResult == <<"ERROR", MsgTimeout>>

\* "if timeout + 5 < time.time()"
Expired(t, clock) == t + WINDOW < clock

(* ------------------------------ inputs --------------------------------- *)
Tags == {TagOK, TagWARN, TagERROR, TagDATA, TagINFO}
\* " m " and "\rm": leading and trailing blanks, a non-printable byte
Texts == {<<32, 109, 32>>, <<13, 109>>}
Parts == {tg \o tx : tg \in Tags \cup {<<>>}, tx \in Texts}

RECURSIVE LinesOf(_)
LinesOf(n) ==
    IF n = 0 THEN {<<>>}
    ELSE LET shorter == LinesOf(n - 1)
         IN shorter \cup {l \o p : l \in shorter, p \in Parts}

Lines == LinesOf(MaxParts)

\* What readline can hand back: a complete line, or the bytes that arrived
\* before the read timed out.
ByteArrays == Lines \cup {l \o <<10>> : l \in Lines}

\* Filtered text and parsed event of every byte array, computed once.
Filtered == [b \in ByteArrays |-> read_filterd_bytes(b)]
Event == [b \in ByteArrays |-> ParseLine(Filtered[b])]

(* ------------------------- ports and settings -------------------------- *)
NoPort == "none"
AllPorts == {"ttyACM0", "ttyUSB0", "ttyS0"}

Arduino == <<65, 114, 100, 117, 105, 110, 111>>   \* "Arduino"
FTDI == <<70, 84, 68, 73>>                        \* "FTDI"
MfArduino == Arduino \o <<32, 76, 76, 67>>        \* "Arduino LLC"
MfProlific == <<80, 114, 111, 108, 105, 102, 105, 99>>  \* "Prolific"

\* port.manufacturer of a port whose descriptor names no manufacturer (None)
NoneValue == <<-1>>

\* Results of serial.tools.list_ports.comports() on the modelled hosts.
Enumerations ==
    { <<>>,
      << [device |-> "ttyS0", manufacturer |-> NoneValue],
         [device |-> "ttyACM0", manufacturer |-> MfArduino] >>,
      << [device |-> "ttyACM0", manufacturer |-> MfArduino],
         [device |-> "ttyUSB0", manufacturer |-> FTDI],
         [device |-> "ttyS0", manufacturer |-> MfProlific] >>,
      << [device |-> "ttyS0", manufacturer |-> MfProlific],
         [device |-> "ttyUSB0", manufacturer |-> FTDI],
         [device |-> "ttyACM0", manufacturer |-> MfArduino] >> }

InSeq(x, sq) == \E i \in 1..Len(sq) : sq[i] = x

\* The filter of find_comports' loop.
Wanted(port, found) ==
    /\ Contains(port.manufacturer, Arduino) \/ Contains(port.manufacturer, FTDI)
    /\ ~InSeq(port.device, found)

RECURSIVE ScanPorts(_, _)
ScanPorts(comports, found) ==
    IF comports = <<>> THEN found
    ELSE ScanPorts(Tail(comports),
                   IF Wanted(Head(comports), found)
                   THEN Append(found, Head(comports).device)
                   ELSE found)

find_comports(cfgPort, comports) ==
    ScanPorts(comports, IF cfgPort # NoPort THEN <<cfgPort>> ELSE <<>>)

\* '"Arduino" in port.manufacturer' raises TypeError when the manufacturer
\* is None, and find_comports returns nothing.
find_comports_raises(comports) ==
    \E i \in 1..Len(comports) : comports[i].manufacturer = NoneValue

(* ---------------------------- device replies --------------------------- *)
\* What the device does while the client waits: one tagged line, or nothing.
Stimuli == {"OK", "WARN", "ERROR", "DATA", "SILENCE"}

\* "<TAG>: m\r\n"
DeviceLine(st) == TagOf(st) \o <<32, 109, 13, 10>>

\* Result of one whole call of wait_for_response for a device stimulus.
WaitResult ==
    [st \in Stimuli |->
        IF st = "SILENCE" THEN TimeoutResult
        ELSE ParseLine(read_filterd_bytes(DeviceLine(st)))]

check_port_ok_AnyReply(res) == res[1] # "ERROR"

\* check_port: 'if res == "OK": return ser'
check_port_ok(res) == res[1] = "OK"

saved_port_Always(cfg, port, accepted) == port

\* find_programmer: 'if serial_port: config["port"] = port; save_config()'
saved_port(cfg, port, accepted) == IF accepted THEN port ELSE cfg

(* ------------------------------- sizes --------------------------------- *)
Sizes == {k * block_size + r : k \in 0..(MaxBlocks - 1), r \in {0, Partial}}
             \cup {MaxBlocks * block_size}
MemSizes == Sizes \ {0}
FileSizes == Sizes \cup {MaxBlocks * block_size + Partial}
MaxData == MaxBlocks + 1      \* DATA events the model lets a device send
PayloadLens == {0, Partial, block_size}

CeilDiv(a, b) == (a + b - 1) \div b

\* int(a / b * 100)
Percent(a, b) == (a * 100) \div b

read_case_WarnEnds(kind) ==
    IF kind = "DATA" THEN "data"
    ELSE IF kind \in {"OK", "WARN"} THEN "finished"
    ELSE "abort"

\* read_chip: the arms of "match wait_for_response(ser)[0]"
read_case(kind) ==
    IF kind = "DATA" THEN "data"
    ELSE IF kind = "OK" THEN "finished"
    ELSE "abort"

acknowledges_AnyEnd(arm) == arm \in {"data", "finished"}

\* read_chip: the arm that writes "OK\n" back
acknowledges(arm) == arm = "data"

next_pos_RetryRefused(pos, n, kind) == IF kind = "OK" THEN pos + n ELSE pos

\* write_chip: file position after "data = f.read(block_size)" returned n bytes
next_pos(pos, n, kind) == pos + n

loop_bound_AtLeast(sent_bytes, size) == sent_bytes >= size

\* write_chip: "if bytes_sent == mem_size: break"
loop_bound(sent_bytes, size) == sent_bytes = size

(* ------------------------------ versions ------------------------------- *)
RECURSIVE Decimal(_)
Decimal(n) == IF n < 10 THEN <<48 + n>> ELSE Decimal(n \div 10) \o <<48 + (n % 10)>>

\* "major.minor.patch"
VersionText(v) == Decimal(v[1]) \o <<46>> \o Decimal(v[2]) \o <<46>> \o Decimal(v[3])

RECURSIVE split(_, _)
\* s.split(sep) for a one-character separator
split(s, sep) ==
    LET at == {i \in 1..Len(s) : s[i] = sep}
    IN IF at = {} THEN <<s>>
       ELSE <<SubSeq(s, 1, Min(at) - 1)>> \o split(From(s, Min(at) + 1), sep)

RECURSIVE int(_)
\* int(s) for a string of decimal digits
int(s) == IF s = <<>> THEN 0 ELSE int(SubSeq(s, 1, Len(s) - 1)) * 10 + (s[Len(s)] - 48)

RECURSIVE LexLess(_, _)
\* Python's a < b on two strings
LexLess(a, b) ==
    IF b = <<>> THEN FALSE
    ELSE IF a = <<>> THEN TRUE
    ELSE IF Head(a) # Head(b) THEN Head(a) < Head(b)
    ELSE LexLess(Tail(a), Tail(b))

component_less_Lexical(a, b) == LexLess(a, b)

\* firmware_check: "int(major) < int(major_l)"
component_less(a, b) == int(a) < int(b)

\* firmware_check: the condition that reports a new version
update_available(version, latest_version) ==
    LET v == split(version, 46)
        l == split(latest_version, 46)
    IN \/ component_less(v[1], l[1])
       \/ component_less(v[2], l[2])
       \/ component_less(v[3], l[3])

Versions == { <<1, 2, 3>>, <<1, 3, 0>>, <<2, 0, 0>>, <<1, 9, 0>>, <<1, 10, 0>>,
              <<1, 9, 9>>, <<2, 0, 1>> }
NoVersion == <<>>

(* ------------------------------- state --------------------------------- *)
VARIABLES
    now,        \* wall clock, time.time()
    timeout,    \* wait_for_response: local "timeout"
    wpc,        \* wait_for_response: "idle", "waiting", "returned"
    wres,       \* wait_for_response: returned (kind, message)
    wline,      \* the raw line whose tag made the loop return
    wlast,      \* event kind of the last iteration's line, "EMPTY" if filtered empty
    wcause,     \* what caused the return: "line" or "timeout"
    lastRecog   \* clock value at the last line carrying a recognized tag, or at the start

VARIABLES
    configPort, \* config["port"], NoPort when the key is absent
    pc,         \* position of the running command
    cmd,        \* the top-level command being run
    serial_ports, \* find_comports: serial_ports
    ports,      \* find_programmer: ports
    idx,        \* find_programmer: position of the for loop in ports
    hs,         \* what each tried port did during its handshake
    ser,        \* the connection returned by find_programmer, NoPort for None
    open,       \* ports whose serial.Serial object is open
    lastGood,   \* port of the most recent successful handshake
    mem_size,   \* data["memory-size"]
    file_size,  \* os.path.getsize(input_file)
    sent,       \* what the command wrote to the connection, in order
    events,     \* what the device did at each wait of the command
    payloads,   \* read_chip: lengths returned by ser.read(256)
    bytes_read, \* read_chip: bytes_read
    progress,   \* percentages handed to print_progress
    outfile,    \* read_chip: output file, "none", "open" or "closed"
    fpos,       \* write_chip: read position in the input file
    bytes_sent, \* write_chip: bytes_sent
    outcome,    \* how the command ended
    fwInstalled, \* firmware_check: version reported by the device
    fwLatest    \* firmware_check: version of the release feed

wvars == <<now, timeout, wpc, wres, wline, wlast, wcause, lastRecog>>
findvars == <<serial_ports, ports, idx, hs>>
xfervars == <<mem_size, file_size, sent, events, payloads, bytes_read, progress,
              outfile, fpos, bytes_sent>>
fwvars == <<fwInstalled, fwLatest>>
ovars == <<configPort, pc, cmd, findvars, ser, open, lastGood, xfervars, outcome, fwvars>>
vars == <<wvars, ovars>>

(* ------------------------- wait_for_response --------------------------- *)
WaitInit ==
    /\ now = 0
    /\ timeout = 0
    /\ wpc = "idle"
    /\ wres = <<"NONE", <<>>>>
    /\ wline = <<>>
    /\ wlast = "START"
    /\ wcause = "none"
    /\ lastRecog = 0

\* timeout = time.time()
WaitStart ==
    /\ wpc = "idle"
    /\ wpc' = "waiting"
    /\ timeout' = now
    /\ lastRecog' = now
    /\ UNCHANGED <<now, wres, wline, wlast, wcause, ovars>>

\* One iteration of "while True": readline blocks for d <= 1 time units and
\* yields a complete line (d < 1, ends in "\n") or what arrived before the
\* read timed out (d = 1).
WaitIter ==
    /\ wpc = "waiting"
    /\ \E d \in 0..READ_TIMEOUT, l \in Lines :
        LET byte_array == IF d < READ_TIMEOUT THEN l \o <<10>> ELSE l
            res == Filtered[byte_array]
            ev == Event[byte_array]
            clock == now + d
            t == IF Len(res) > 0 THEN clock ELSE timeout
        IN /\ clock <= MaxTime
           /\ now' = clock
           /\ wline' = IF Len(res) > 0 /\ Returns(ev) THEN byte_array ELSE <<>>
           /\ wlast' = IF Len(res) > 0 THEN ev[1] ELSE "EMPTY"
           /\ lastRecog' = IF Len(res) > 0 /\ ev[1] # "NONE" THEN clock ELSE lastRecog
           /\ IF Len(res) > 0 /\ Returns(ev)
              THEN /\ wpc' = "returned"
                   /\ wres' = ev
                   /\ wcause' = "line"
                   /\ UNCHANGED timeout
              ELSE /\ timeout' = t
                   /\ IF Expired(t, clock)
                      THEN /\ wpc' = "returned"
                           /\ wres' = TimeoutResult
                           /\ wcause' = "timeout"
                      ELSE UNCHANGED <<wpc, wres, wcause>>
    /\ UNCHANGED ovars

WaitNext == WaitStart \/ WaitIter

(* ---------------------------- the commands ---------------------------- *)
Commands == {"read_chip", "write_chip", "read_voltage", "firmware_check", "rurp_config"}

Ack == <<"ACK", 0, 0>>                 \* ser.write("OK") / ser.write("OK\n")
Block(off, n) == <<"BLOCK", off, n>>   \* 2-byte length n, then n bytes from offset off
End == <<"END", 0, 0>>                 \* 2-byte zero length

Count(sq, x) == Cardinality({i \in 1..Len(sq) : sq[i] = x})

\* find_programmer's locals are gone once it has returned.
ResetFind == serial_ports' = <<>> /\ ports' = <<>> /\ idx' = 0 /\ hs' = <<>>

OpsInit ==
    /\ configPort \in AllPorts \cup {NoPort}
    /\ pc = "idle"
    /\ cmd = "none"
    /\ serial_ports = <<>> /\ ports = <<>> /\ idx = 0 /\ hs = <<>>
    /\ ser = NoPort
    /\ open = {}
    /\ lastGood = NoPort
    /\ mem_size = 0 /\ file_size = 0
    /\ sent = <<>> /\ events = <<>> /\ payloads = <<>>
    /\ bytes_read = 0 /\ progress = <<>> /\ outfile = "none"
    /\ fpos = 0 /\ bytes_sent = 0
    /\ outcome = "none"
    /\ fwInstalled = NoVersion /\ fwLatest = NoVersion

\* main(): a command starts; the command builds its envelope and find_programmer
\* calls find_comports.
Invoke ==
    /\ pc = "idle"
    /\ \E c \in Commands, e \in Enumerations, m \in MemSizes, f \in FileSizes :
        /\ cmd' = c
        /\ mem_size' = IF c \in {"read_chip", "write_chip"} THEN m ELSE 0
        /\ file_size' = IF c = "write_chip" THEN f ELSE 0
        /\ serial_ports' = e
        /\ IF find_comports_raises(e)
           THEN /\ ports' = <<>>          \* the TypeError ends the process
                /\ idx' = 0
                /\ pc' = "done"
                /\ outcome' = "type_error"
           ELSE /\ ports' = find_comports(configPort, e)
                /\ idx' = 1
                /\ pc' = "find"
                /\ UNCHANGED outcome
    /\ hs' = <<>>
    /\ UNCHANGED <<configPort, ser, open, lastGood, sent, events, payloads, bytes_read,
                   progress, outfile, fpos, bytes_sent, fwvars, wvars>>

\* find_programmer: one pass of "for port in ports", check_port included.
CheckPort ==
    /\ pc = "find"
    /\ idx <= Len(ports)
    /\ \E o \in Stimuli \cup {"OPEN_EXC", "WRITE_EXC"} :
        LET port == ports[idx]
            accepted == o \in Stimuli /\ check_port_ok(WaitResult[o])
        IN /\ hs' = Append(hs, o)
           /\ open' = IF o = "OPEN_EXC" THEN open ELSE open \cup {port}
           /\ configPort' = saved_port(configPort, port, accepted)
           /\ IF accepted
              THEN /\ lastGood' = port
                   /\ ser' = port
                   /\ pc' = "connected"
                   /\ UNCHANGED idx
              ELSE /\ idx' = idx + 1
                   /\ UNCHANGED <<lastGood, ser, pc>>
    /\ UNCHANGED <<cmd, serial_ports, ports, xfervars, outcome, fwvars, wvars>>

\* find_programmer returns None; the command prints "No programmer found".
NoProgrammer ==
    /\ pc = "find"
    /\ idx > Len(ports)
    /\ pc' = "done"
    /\ outcome' = "no_programmer"
    /\ ResetFind
    /\ UNCHANGED <<configPort, cmd, ser, open, lastGood, xfervars, fwvars, wvars>>

\* read_voltage, up to the first wait.
ReadVoltageStart ==
    /\ pc = "connected"
    /\ cmd = "read_voltage"
    /\ sent' = Append(sent, Ack)
    /\ pc' = "voltage"
    /\ ResetFind
    /\ UNCHANGED <<configPort, cmd, ser, open, lastGood, mem_size, file_size, events,
                   payloads, bytes_read, progress, outfile, fpos, bytes_sent, outcome,
                   fwvars, wvars>>

\* read_voltage: one pass of 'while wait_for_response(ser)[0] == "DATA"'.
ReadVoltageLoop ==
    /\ pc = "voltage"
    /\ \E st \in Stimuli :
        /\ st = "DATA" => Count(events, "DATA") < MaxData
        /\ events' = Append(events, st)
        /\ IF WaitResult[st][1] = "DATA"
           THEN /\ sent' = Append(sent, Ack)
                /\ UNCHANGED <<pc, outcome>>
           ELSE /\ pc' = "done"
                /\ outcome' = "ended"
                /\ UNCHANGED sent
    /\ UNCHANGED <<configPort, cmd, findvars, ser, open, lastGood, mem_size, file_size,
                   payloads, bytes_read, progress, outfile, fpos, bytes_sent, fwvars, wvars>>

\* firmware_check after the handshake.
FirmwareCheck ==
    /\ pc = "connected"
    /\ cmd = "firmware_check"
    /\ \E st \in Stimuli, v \in Versions, l \in Versions \cup {NoVersion} :
        LET line == IF st = "OK" THEN TagOK \o <<32>> \o VersionText(v) \o <<13, 10>>
                    ELSE IF st = "SILENCE" THEN <<>> ELSE DeviceLine(st)
            res == IF st = "SILENCE" THEN TimeoutResult
                   ELSE ParseLine(read_filterd_bytes(line))
        IN /\ events' = Append(events, st)
           /\ IF res[1] = "OK"
              THEN /\ fwInstalled' = v
                   /\ fwLatest' = l
                   /\ outcome' = IF l = NoVersion THEN "exception"
                                 ELSE IF update_available(res[2], VersionText(l))
                                      THEN "update" ELSE "latest"
              ELSE /\ fwInstalled' = NoVersion
                   /\ fwLatest' = NoVersion
                   /\ outcome' = "error"
    /\ sent' = Append(sent, Ack)
    /\ open' = open \ {ser}            \* ser.close()
    /\ pc' = "done"
    /\ ResetFind
    /\ UNCHANGED <<configPort, cmd, ser, lastGood, mem_size, file_size, payloads,
                   bytes_read, progress, outfile, fpos, bytes_sent, wvars>>

\* rurp_config after the handshake.
RurpConfig ==
    /\ pc = "connected"
    /\ cmd = "rurp_config"
    /\ \E st \in Stimuli :
        /\ events' = Append(events, st)
        /\ outcome' = IF WaitResult[st][1] = "OK" THEN "config" ELSE "error"
    /\ sent' = Append(sent, Ack)
    /\ pc' = "done"
    /\ ResetFind
    /\ UNCHANGED <<configPort, cmd, ser, open, lastGood, mem_size, file_size, payloads,
                   bytes_read, progress, outfile, fpos, bytes_sent, fwvars, wvars>>

\* read_chip: the start of the try block, up to the loop.  A failing
\* ser.write or open() leaves output_file a file name, so the "finally"
\* clause fails at output_file.close() and never reaches ser.close().
ReadChipStart ==
    /\ pc = "connected"
    /\ cmd = "read_chip"
    /\ \E o \in {"ok", "write_exc", "open_exc"} :
        /\ sent' = IF o = "write_exc" THEN sent ELSE Append(sent, Ack)
        /\ IF o = "ok"
           THEN /\ outfile' = "open"
                /\ pc' = "reading"
                /\ UNCHANGED outcome
           ELSE /\ pc' = "done"
                /\ outcome' = "exception"
                /\ UNCHANGED outfile
    /\ ResetFind
    /\ UNCHANGED <<configPort, cmd, ser, open, lastGood, mem_size, file_size, events,
                   payloads, bytes_read, progress, fpos, bytes_sent, fwvars, wvars>>

\* read_chip: one pass of "while True", the "finally" clause included when
\* the pass leaves the loop.
ReadChipLoop ==
    /\ pc = "reading"
    /\ \E st \in Stimuli :
        LET arm == read_case(WaitResult[st][1])
            acked == IF acknowledges(arm) THEN Append(sent, Ack) ELSE sent
        IN IF arm = "data"
           THEN /\ Count(events, "DATA") < MaxData
                /\ events' = Append(events, st)
                /\ \E n \in PayloadLens, w \in {"ok", "write_exc"} :
                    /\ payloads' = Append(payloads, n)
                    /\ bytes_read' = bytes_read + block_size
                    /\ progress' = Append(progress, Percent(bytes_read + block_size, mem_size))
                    /\ IF w = "ok"
                       THEN /\ sent' = acked
                            /\ UNCHANGED <<pc, outcome, outfile, open>>
                       ELSE /\ pc' = "done"
                            /\ outcome' = "exception"
                            /\ outfile' = "closed"
                            /\ open' = open \ {ser}
                            /\ UNCHANGED sent
           ELSE IF arm = "finished"
           THEN /\ events' = Append(events, st)
                /\ sent' = acked
                /\ pc' = "done"
                /\ outcome' = "success"
                /\ outfile' = "closed"
                /\ open' = open \ {ser}
                /\ UNCHANGED <<payloads, bytes_read, progress>>
           ELSE \E st2 \in Stimuli :     \* print(wait_for_response(ser)[1])
                /\ events' = events \o <<st, st2>>
                /\ sent' = acked
                /\ pc' = "done"
                /\ outcome' = "error"
                /\ outfile' = "closed"
                /\ open' = open \ {ser}
                /\ UNCHANGED <<payloads, bytes_read, progress>>
    /\ UNCHANGED <<configPort, cmd, findvars, ser, lastGood, mem_size, file_size, fpos,
                   bytes_sent, fwvars, wvars>>

\* write_chip: one pass of "while True" over the input file.
WriteChipLoop ==
    /\ \/ pc = "connected" /\ cmd = "write_chip"
       \/ pc = "writing"
    /\ \E st \in Stimuli :
        LET n == Min({block_size, file_size - fpos})
            res == WaitResult[st]
            bs == IF res[1] = "OK" THEN bytes_sent + n ELSE bytes_sent
        IN /\ events' = Append(events, st)
           /\ IF n = 0
              THEN /\ sent' = Append(sent, End)
                   /\ pc' = "done"
                   /\ outcome' = "eof"
                   /\ UNCHANGED <<fpos, bytes_sent, progress>>
              ELSE /\ sent' = Append(sent, Block(fpos, n))
                   /\ fpos' = next_pos(fpos, n, res[1])
                   /\ bytes_sent' = bs
                   /\ progress' = IF res[1] = "OK"
                                  THEN Append(progress, Percent(bs, file_size))
                                  ELSE progress
                   /\ IF res[1] = "ERROR"
                      THEN pc' = "done" /\ outcome' = "error"
                      ELSE IF loop_bound(bs, mem_size)
                      THEN pc' = "done" /\ outcome' = "success"
                      ELSE pc' = "writing" /\ UNCHANGED outcome
    /\ ResetFind
    /\ UNCHANGED <<configPort, cmd, ser, open, lastGood, mem_size, file_size, payloads,
                   bytes_read, outfile, fwvars, wvars>>

\* A serial.Serial object that no variable refers to any more (check_port
\* returned None, or the command has returned) is closed when the Python
\* runtime finalizes it, which may be at once, later, or not before exit.
Finalize ==
    /\ pc # "idle"
    /\ \E p \in open :
        /\ p # ser \/ pc = "done"
        /\ open' = open \ {p}
    /\ UNCHANGED <<configPort, pc, cmd, findvars, ser, lastGood, xfervars, outcome,
                   fwvars, wvars>>

\* The process ends: the operating system closes what is still open, the
\* saved configuration stays.
Exit ==
    /\ pc = "done"
    /\ pc' = "idle"
    /\ cmd' = "none"
    /\ ResetFind
    /\ ser' = NoPort
    /\ open' = {}
    /\ mem_size' = 0 /\ file_size' = 0
    /\ sent' = <<>> /\ events' = <<>> /\ payloads' = <<>>
    /\ bytes_read' = 0 /\ progress' = <<>> /\ outfile' = "none"
    /\ fpos' = 0 /\ bytes_sent' = 0
    /\ outcome' = "none"
    /\ fwInstalled' = NoVersion /\ fwLatest' = NoVersion
    /\ UNCHANGED <<configPort, lastGood, wvars>>

Init == WaitInit /\ OpsInit

Next ==
    \/ Invoke
    \/ CheckPort
    \/ NoProgrammer
    \/ ReadVoltageStart
    \/ ReadVoltageLoop
    \/ FirmwareCheck
    \/ RurpConfig
    \/ ReadChipStart
    \/ ReadChipLoop
    \/ WriteChipLoop
    \/ Finalize
    \/ Exit

Spec == Init /\ [][Next]_vars

\* wait_for_response on its own, over every modelled line.
InitWait == WaitInit /\ OpsInit /\ configPort = NoPort
SpecWait == InitWait /\ [][WaitNext]_vars

(* ------------------- properties of wait_for_response ------------------- *)
ReturnKinds == {"OK", "WARN", "ERROR", "DATA"}
AllKinds == ReturnKinds \cup {"INFO"}

\* Everything after the last occurrence of tag in s.
AfterLast(s, tag) ==
    LET at == Max({i \in 1..Len(s) : StartsAt(s, tag, i)})
    IN SubSeq(s, at + Len(tag), Len(s))

\* The kind whose tag starts latest in s.
LastKind(s) ==
    CHOOSE k \in AllKinds :
        /\ Contains(s, TagOf(k))
        /\ \A j \in AllKinds :
              Contains(s, TagOf(j)) => rfind(s, TagOf(j)) <= rfind(s, TagOf(k))

C2_LastTagSignificant ==
    wcause = "line" =>
        LET k == LastKind(Filtered[wline])
        IN wres = <<k, strip(AfterLast(Filtered[wline], TagOf(k)))>>

\* C3: the return caused by the elapsed window is an event of kind TIMEOUT
\* with message "Timeout", a kind no device line can produce.
C3_TimeoutKind ==
    wcause = "timeout" => wres = <<"TIMEOUT", MsgTimeout>>

\* C4: only lines with a recognized tag reset the window, so the loop is
\* never still waiting more than 5 time units after the last recognized line.
C4_WindowResetOnlyByTags ==
    wpc = "waiting" => now <= lastRecog + WINDOW

\* C5: a line whose event is INFO leaves the loop reading, and every return
\* is caused by an OK, WARN, ERROR or DATA line or by the elapsed window.
C5_InfoNeverReturns ==
    /\ wlast = "INFO" => wpc = "waiting"
    /\ wpc = "returned" =>
          \/ wcause = "timeout" /\ wres = TimeoutResult
          \/ /\ wcause = "line"
             /\ wres[1] \in ReturnKinds
             /\ Contains(Filtered[wline], TagOf(wres[1]))

\* An INFO line was read and the loop is still waiting at a later time.
C5_Witness == wpc = "waiting" /\ wlast = "INFO" /\ now > 0

(* ---------------------- properties of the commands --------------------- *)
\* C6: when a command that obtained a connection ends, by success, by a
\* device ERROR or WARN or by a timeout, that connection is closed.
C6_ConnectionClosedAtEnd ==
    pc = "done" /\ ser # NoPort /\ outcome # "exception" => ser \notin open

RECURSIVE Sum(_)
Sum(sq) == IF sq = <<>> THEN 0 ELSE Head(sq) + Sum(Tail(sq))

\* The device sent ceil(S/256) DATA events, full blocks with a possibly
\* shorter last one, and then one OK.
ConformingRead ==
    LET nblocks == CeilDiv(mem_size, block_size)
    IN /\ Len(payloads) = nblocks
       /\ Len(events) = nblocks + 1
       /\ \A i \in 1..nblocks :
            /\ events[i] = "DATA"
            /\ payloads[i] = Min({block_size, mem_size - (i - 1) * block_size})
       /\ events[nblocks + 1] = "OK"

\* C7: after such a read of a chip of size S the output holds exactly S
\* bytes and the reported percentages lie in 0..100 and never decrease.
C7_ReadTransfer ==
    pc = "done" /\ cmd = "read_chip" /\ outcome = "success" /\ ConformingRead =>
        /\ Sum(payloads) = mem_size
        /\ \A i \in 1..Len(progress) : progress[i] \in 0..100
        /\ \A i, j \in 1..Len(progress) : i <= j => progress[i] <= progress[j]

\* The first k blocks of the input file, as write_chip frames them.
FileBlocks(k) ==
    [i \in 1..k |-> Block((i - 1) * block_size,
                          Min({block_size, file_size - (i - 1) * block_size}))]

\* The device answered OK to every block it was sent.
AllBlocksOK ==
    \A i \in 1..Len(events) : sent[i][1] = "BLOCK" => events[i] = "OK"

WriteEnded == pc = "done" /\ cmd = "write_chip" /\ ser # NoPort

\* C8 as stated: ceil(S/256) blocks in source order, then one terminator
\* when S is not a multiple of 256, and no terminator when it is, whatever
\* the declared memory size.
C8_WriteTransferBySourceSize ==
    WriteEnded /\ AllBlocksOK =>
        LET all == FileBlocks(CeilDiv(file_size, block_size))
        IN IF file_size % block_size # 0
           THEN sent = all \o <<End>>
           ELSE sent = all /\ bytes_sent = file_size

\* C8 amended: the blocks go out in source order until the cumulative count
\* equals the declared memory size right after a block (no terminator then);
\* otherwise all ceil(S/256) blocks are sent, followed by one terminator.
C8_WriteTransferByMemorySize ==
    WriteEnded /\ AllBlocksOK =>
        LET nblocks == CeilDiv(file_size, block_size)
            hits == {k \in 1..nblocks : Min({k * block_size, file_size}) = mem_size}
        IN IF hits # {}
           THEN sent = FileBlocks(Min(hits)) /\ outcome = "success"
           ELSE sent = FileBlocks(nblocks) \o <<End>> /\ outcome = "eof"

\* A file of the chip's size, not a multiple of 256, went out in two blocks
\* and no terminator followed.
C8_Witness ==
    /\ WriteEnded /\ AllBlocksOK
    /\ file_size = mem_size
    /\ file_size % block_size # 0
    /\ Len(sent) = 2
    /\ outcome = "success"

\* C9: find_programmer goes through the candidates in order, returns the
\* first port whose handshake answers OK and saves it as the remembered
\* port, which the next discovery then lists first.
C9_FirstOkPortSelected ==
    /\ pc = "find" =>
          /\ Len(hs) = idx - 1
          /\ \A j \in 1..Len(hs) : hs[j] # "OK"
          /\ lastGood # NoPort => ports[1] = lastGood
    /\ pc = "connected" =>
          /\ Len(hs) = idx
          /\ hs[idx] = "OK"
          /\ \A j \in 1..(idx - 1) : hs[j] # "OK"
          /\ ser = ports[idx]
          /\ configPort = ser
    /\ lastGood # NoPort => configPort = lastGood

\* The first candidate answered ERROR, the second OK and was selected.
C9_Witness ==
    /\ pc = "connected"
    /\ hs = <<"ERROR", "OK">>
    /\ ser = ports[2]
    /\ configPort = ports[2]

\* C10: the comparison is numeric per component: 1.2.3 against 1.3.0 and
\* 1.9.0 against 1.10.0 report an update, 2.0.0 against 2.0.0 does not, and
\* when one component differs the update is reported exactly when that
\* component of the installed version is the smaller number.
C10_NumericComparison ==
    pc = "done" /\ cmd = "firmware_check" /\ outcome \in {"update", "latest"} =>
        /\ fwInstalled = <<1, 2, 3>> /\ fwLatest = <<1, 3, 0>> => outcome = "update"
        /\ fwInstalled = <<2, 0, 0>> /\ fwLatest = <<2, 0, 0>> => outcome = "latest"
        /\ fwInstalled = <<1, 9, 0>> /\ fwLatest = <<1, 10, 0>> => outcome = "update"
        /\ \A i \in 1..3 :
             (\A j \in 1..3 : j # i => fwInstalled[j] = fwLatest[j]) =>
                 (outcome = "update" <=> fwInstalled[i] < fwLatest[i])

\* Installed 1.9.0 was compared with latest 1.10.0.
C10_Witness ==
    /\ pc = "done" /\ cmd = "firmware_check"
    /\ fwInstalled = <<1, 9, 0>> /\ fwLatest = <<1, 10, 0>>
    /\ outcome = "update"

\* The ports of an enumeration that carry a vendor signature, in order,
\* without the remembered one.
VendorPorts(comports, remembered) ==
    LET keep == SelectSeq(comports,
                   LAMBDA p : /\ p.device # remembered
                              /\ \/ Contains(p.manufacturer, Arduino)
                                 \/ Contains(p.manufacturer, FTDI))
    IN [i \in 1..Len(keep) |-> keep[i].device]

\* C11: discovery returns the remembered port first when there is one, then
\* the enumerated ports with a vendor signature in enumeration order; no port
\* twice, and no port without a signature other than the remembered one.
C11_CandidatePorts ==
    /\ outcome # "type_error"
    /\ pc = "find" =>
          /\ ports = (IF configPort # NoPort THEN <<configPort>> ELSE <<>>)
                        \o VendorPorts(serial_ports, configPort)
          /\ \A i, j \in 1..Len(ports) : ports[i] = ports[j] => i = j

\* C12: whatever bytes were read, the message wait_for_response returns
\* holds no byte outside 32..126.
C12_PrintableMessage ==
    wpc = "returned" => \A i \in 1..Len(wres[2]) : wres[2][i] \in 32..126

\* A line holding a non-printable byte inside its message made the loop return.
C12_Witness ==
    /\ wcause = "line"
    /\ Len(wres[2]) > 1
    /\ \E i \in 2..(Len(wline) - 1) :
         /\ wline[i] \notin 32..126
         /\ wline[i - 1] = 32
         /\ Contains(SubSeq(wline, 1, i - 1), TagOf(wres[1]))

\* C13: a candidate that did not answer OK is closed before the next one is
\* opened: never two transports open, and none open after a failed discovery.
C13_OneTransportAtATime ==
    /\ Cardinality(open) <= 1
    /\ outcome = "no_programmer" => open = {}

\* C14: once the handshake succeeded, read_chip ends with the output file
\* closed and the connection closed, also when a serial write or the opening
\* of the output file raised inside the try block.
C14_ReadChipReleases ==
    pc = "done" /\ cmd = "read_chip" /\ ser # NoPort =>
        /\ outfile # "open"
        /\ ser \notin open

\* Position of the first block the device did not answer with OK
\* (0 when there is none).
FirstRefused ==
    LET bad == {i \in 1..Len(events) :
                   sent[i][1] = "BLOCK" /\ events[i] \in {"ERROR", "WARN", "SILENCE"}}
    IN IF bad = {} THEN 0 ELSE Min(bad)

\* C15: once a block is answered by ERROR, WARN or a timeout, write_chip
\* writes nothing more to the device and does not end in success.
C15_WriteErrorsTerminal ==
    cmd = "write_chip" /\ FirstRefused # 0 =>
        /\ Len(sent) = FirstRefused
        /\ pc = "done"
        /\ outcome # "success"

\* C16: the remembered port changes only in the step in which a handshake
\* is answered OK, and a discovery that fails on every candidate ends with
\* no connection and the remembered port as it was.
C16_RememberedOnlyAfterOk ==
    [][ /\ configPort' # configPort =>
             /\ pc = "find" /\ pc' = "connected"
             /\ hs'[idx] = "OK"
             /\ configPort' = ports[idx]
        /\ outcome' = "no_programmer" =>
             /\ ser' = NoPort
             /\ configPort' = configPort ]_vars

\* Discovery failed after a remembered port had been opened and had not
\* answered OK.
C16_Witness ==
    /\ outcome = "no_programmer"
    /\ configPort # NoPort
    /\ configPort \in open

\* Payload bytes written to the device so far.
RECURSIVE PayloadSent(_)
PayloadSent(sq) ==
    IF sq = <<>> THEN 0
    ELSE (IF Head(sq)[1] = "BLOCK" THEN Head(sq)[3] ELSE 0) + PayloadSent(Tail(sq))

\* C17: write_chip never sends more payload bytes than the declared memory
\* size, whatever the source size.
C17_PayloadWithinMemory ==
    cmd = "write_chip" => PayloadSent(sent) <= mem_size

ReadRunning ==
    cmd = "read_chip" /\ pc \in {"reading", "done"} /\ ser # NoPort /\ outcome # "exception"

\* The events the read loop dispatched; the abort path's closing wait is not
\* one of them.
LoopEvents ==
    IF outcome = "error" THEN SubSeq(events, 1, Len(events) - 1) ELSE events

\* C18: after the initial OK, read_chip has written one acknowledgment per
\* DATA event whose payload it appended to the output, and none for the
\* final OK or for any other event.
C18_StopAndWaitRead ==
    /\ cmd = "read_chip" /\ ser # NoPort =>
           /\ \A i \in 1..Len(sent) : sent[i] = Ack
           /\ Len(sent) <= 1 + Len(payloads)
    /\ ReadRunning =>
           /\ Len(payloads) = Count(LoopEvents, "DATA")
           /\ Len(sent) = 1 + Len(payloads)

\* Two DATA events were acknowledged and the final OK was not.
C18_Witness ==
    /\ ReadRunning /\ outcome = "success"
    /\ events = <<"DATA", "DATA", "OK">>
    /\ Len(sent) = 3

\* The read loop met an event that is neither DATA nor OK.
ReadAborted ==
    /\ cmd = "read_chip"
    /\ Len(events) > Len(payloads)
    /\ events[Len(payloads) + 1] \notin {"DATA", "OK"}

\* C19 as stated: such an event ends the transfer with nothing more
\* appended, nothing more written and no further wait on the device.
C19_AbortWithoutFurtherWait ==
    ReadAborted =>
        /\ pc = "done" /\ outcome = "error"
        /\ outfile = "closed"
        /\ Len(sent) = 1 + Len(payloads)
        /\ Len(events) = Len(payloads) + 1

\* C19 amended: such an event ends the transfer with nothing more appended
\* or written, after exactly one further wait on the device.
C19_AbortAfterOneMoreWait ==
    ReadAborted =>
        /\ pc = "done" /\ outcome = "error"
        /\ outfile = "closed"
        /\ Len(sent) = 1 + Len(payloads)
        /\ Len(events) = Len(payloads) + 2

\* A WARN arrived after one block had been written to the output.
C19_Witness ==
    /\ ReadAborted
    /\ payloads = <<block_size>>
    /\ events[2] = "WARN"
    /\ outcome = "error"

\* C20: write_chip sends each block of the file at most once and in order,
\* one wait per block or terminator, hence at most ceil(S/256)+1 waits, and
\* while it runs the file position has advanced past every block sent.
C20_NoRetryNoOverlap ==
    cmd = "write_chip" /\ ser # NoPort =>
        LET nblocks == CeilDiv(file_size, block_size)
        IN /\ Len(events) = Len(sent)
           /\ Len(events) <= nblocks + 1
           /\ \/ Len(sent) <= nblocks /\ sent = FileBlocks(Len(sent))
              \/ sent = FileBlocks(nblocks) \o <<End>> /\ pc = "done"
           /\ pc # "done" => fpos = Min({Len(sent) * block_size, file_size})

\* A refused block was not sent again: the next block and the terminator
\* followed it.
C20_Witness ==
    /\ cmd = "write_chip" /\ pc = "done"
    /\ Len(events) = 3 /\ events[1] = "WARN"
    /\ Len(sent) = 3
    /\ sent[3] = End

\* a is strictly older than b: compare major, then minor, then patch.
VersionOlder(a, b) ==
    \/ a[1] < b[1]
    \/ a[1] = b[1] /\ a[2] < b[2]
    \/ a[1] = b[1] /\ a[2] = b[2] /\ a[3] < b[3]

\* C21: firmware_check reports an update exactly when the installed version
\* is strictly older than the latest one in version order, so never for an
\* installed version equal to or newer than the latest.
C21_UpdateOnlyWhenOlder ==
    pc = "done" /\ cmd = "firmware_check" /\ outcome \in {"update", "latest"} =>
        (outcome = "update" <=> VersionOlder(fwInstalled, fwLatest))

====
